---- MODULE Spec2Model ----
(***************************************************************************)
(* red, an ed clone: the editor state of src/src/red.rs and the command    *)
(* executor of src/src/commands.rs, as a state machine.                    *)
(*                                                                         *)
(* A text line is a sequence of one-character strings.  A vector index is  *)
(* 0-based as in the source; a line number is 1-based.  A usize that would *)
(* underflow is carried as a negative integer and aborts the process at    *)
(* the use that follows it: the debug build aborts at the subtraction, the *)
(* release build wraps to a huge index and aborts at the indexing, so both *)
(* builds give the outcome Panic.                                          *)
(***************************************************************************)
EXTENDS Integers, Sequences, FiniteSets, TLC

VARIABLES
    data,          \* Red.data: the buffer, a sequence of lines
    current_line,  \* Red.current_line: the cursor
    mode,          \* Red.mode: "Command" or "Input"
    path,          \* Red.path: the associated file, or NoPath
    dirty,         \* Red.dirty
    files,         \* the file system: path -> content (NoFile when absent)
    pc,            \* "prompt": waiting for a line; "result": dispatch returned
    line,          \* the line last dispatched (a parsed command or a text)
    res,           \* what dispatch returned for it
    out,           \* the lines written to standard output by it
    old,           \* the editor state when that line was dispatched
    block          \* the Input block under way: its command, the state
                   \* before the command, and the lines typed so far

vars == <<data, current_line, mode, path, dirty, files, pc, line, res, out, old, block>>

----------------------------------------------------------------------------
(* Bounds and vocabularies *)

MaxLines == 3
MaxText == 3

\* the texts typed in Input mode and found in files
TextD == <<"d">>
TextQ == <<"q">>
Texts == {TextD, TextQ}
Dot == <<".">>

NoPath == "NoPath"
NoFile == "NoFile"
Paths == {"f"}

----------------------------------------------------------------------------
(* Address (commands.rs 8-14) and Option<Address> *)

None == [t |-> "None", n |-> 0]
CurrentLine == [t |-> "CurrentLine", n |-> 0]
LastLine == [t |-> "LastLine", n |-> 0]
Numbered(k) == [t |-> "Numbered", n |-> k]
Offset(k) == [t |-> "Offset", n |-> k]
IsSome(a) == a.t # "None"

(* Results: Ok(Action), Err(message), or the process aborting *)
OkRes(v) == [k |-> "Ok", v |-> v]
ErrRes(m) == [k |-> "Err", v |-> m]
PanicRes(m) == [k |-> "Panic", v |-> m]
NoRes == [k |-> "None", v |-> ""]

Ok(ed, v) == [ed |-> ed, res |-> OkRes(v)]
Err(ed, m) == [ed |-> ed, res |-> ErrRes(m)]
Panic(ed, m) == [ed |-> ed, res |-> PanicRes(m)]

Min(a, b) == IF a <= b THEN a ELSE b
Max(a, b) == IF a >= b THEN a ELSE b

----------------------------------------------------------------------------
(* Vec<String>: remove and insert at a 0-based index *)

VecCanRemove(v, i) == i >= 0 /\ i < Len(v)
VecRemove(v, i) == [j \in 1..(Len(v) - 1) |-> IF j <= i THEN v[j] ELSE v[j + 1]]
VecCanInsert(v, i) == i >= 0 /\ i <= Len(v)
VecInsert(v, i, x) ==
    [j \in 1..(Len(v) + 1) |-> IF j <= i THEN v[j] ELSE IF j = i + 1 THEN x ELSE v[j - 1]]

\* `for _ in a..=b { lines.push(v.remove(i)) }`: n removals at index i
RECURSIVE RemoveLoop(_, _, _, _)
RemoveLoop(v, i, n, taken) ==
    IF n <= 0 THEN [panic |-> FALSE, v |-> v, taken |-> taken]
    ELSE IF ~VecCanRemove(v, i) THEN [panic |-> TRUE, v |-> v, taken |-> taken]
    ELSE RemoveLoop(VecRemove(v, i), i, n - 1, Append(taken, v[i + 1]))

\* `for line in lines { v.insert(dest, line); dest += 1 }`
RECURSIVE InsertLoop(_, _, _)
InsertLoop(v, dest, lines) ==
    IF lines = <<>> THEN [panic |-> FALSE, v |-> v, dest |-> dest]
    ELSE IF ~VecCanInsert(v, dest) THEN [panic |-> TRUE, v |-> v, dest |-> dest]
    ELSE InsertLoop(VecInsert(v, dest, Head(lines)), dest + 1, Tail(lines))

----------------------------------------------------------------------------
(* Red (red.rs) *)

lines(ed) == Len(ed.data)

set_line(ed, n) ==
    IF n < 1 \/ n > lines(ed)
    THEN [ok |-> FALSE, ed |-> ed]
    ELSE [ok |-> TRUE, ed |-> [ed EXCEPT !.current_line = n]]

\* Option<&str>: some = FALSE is None
get_line(ed, n) ==
    IF n > 0 /\ n <= lines(ed)
    THEN [some |-> TRUE, text |-> ed.data[n]]
    ELSE [some |-> FALSE, text |-> <<>>]

\* BufRead::lines: split at "\n", drop one "\r" before it, no final empty line
RECURSIVE SplitLines(_, _, _)
SplitLines(bytes, cur, acc) ==
    IF bytes = <<>> THEN (IF cur = <<>> THEN acc ELSE Append(acc, cur))
    ELSE IF Head(bytes) = "\n" THEN
        SplitLines(Tail(bytes), <<>>,
                   Append(acc, IF cur # <<>> /\ cur[Len(cur)] = "\r"
                               THEN SubSeq(cur, 1, Len(cur) - 1) ELSE cur))
    ELSE SplitLines(Tail(bytes), Append(cur, Head(bytes)), acc)

load_data(ed, p) ==
    IF ed.files[p] = NoFile
    THEN [ok |-> FALSE, data |-> <<>>]
    ELSE [ok |-> TRUE, data |-> SplitLines(ed.files[p], <<>>, <<>>)]

\* data_size: the sum of len + 1 over the lines
RECURSIVE SizeOf(_)
SizeOf(ls) == IF ls = <<>> THEN 0 ELSE Len(Head(ls)) + 1 + SizeOf(Tail(ls))

load_file(ed, p) ==
    LET d == load_data(ed, p) IN
    IF ~d.ok THEN [ok |-> FALSE, ed |-> ed]
    ELSE [ok |-> TRUE,
          ed |-> [ed EXCEPT !.path = p, !.data = d.data, !.current_line = Len(d.data)]]

----------------------------------------------------------------------------
(* Command (commands.rs) *)

PastEndNever(n, ed) == FALSE

\* `n > ed.lines()`: the line number is past the last line
PastEnd(n, ed) == n > lines(ed)

BeforeFirstOff(l) == l < 0

\* `line < 1`: the offset leads before the first line
BeforeFirst(l) == l < 1

get_actual_line(ed, addr) ==
    CASE addr.t = "CurrentLine" -> [ok |-> TRUE, line |-> ed.current_line]
      [] addr.t = "LastLine" -> [ok |-> TRUE, line |-> lines(ed)]
      [] addr.t = "Numbered" ->
            IF PastEnd(addr.n, ed) THEN [ok |-> FALSE, line |-> 0]
            ELSE [ok |-> TRUE, line |-> addr.n]
      [] addr.t = "Offset" ->
            LET l == ed.current_line + addr.n IN
            IF BeforeFirst(l) THEN [ok |-> FALSE, line |-> 0]
            ELSE IF PastEnd(l, ed) THEN [ok |-> FALSE, line |-> 0]
            ELSE [ok |-> TRUE, line |-> l]

\* one record of output: a line of text, with its number when it is shown
OutLine(show_number, n, text) ==
    [kind |-> IF show_number THEN "numbered" ELSE "line",
     n |-> IF show_number THEN n ELSE 0, text |-> text]

\* `println!("{}", size)`
OutCount(n) == [kind |-> "count", n |-> n, text |-> <<>>]

\* `for line in a..=b { write; get_line(line).unwrap() }`
RECURSIVE WriteLoop(_, _, _, _, _)
WriteLoop(ed, a, b, show_number, written) ==
    IF a > b THEN [panic |-> FALSE, written |-> written]
    ELSE IF ~get_line(ed, a).some THEN [panic |-> TRUE, written |-> written]
    ELSE WriteLoop(ed, a + 1, b, show_number,
                   Append(written, OutLine(show_number, a, get_line(ed, a).text)))

\* returns the editor, the result and the records written to `output`
write_range(ed, start, end, show_number) ==
    LET R(e, r, w) == [ed |-> e, res |-> r, written |-> w] IN
    IF ed.data = <<>> THEN R(ed, ErrRes("Invalid address"), <<>>)
    ELSE IF ~IsSome(start) /\ ~IsSome(end) THEN
        LET l == get_line(ed, ed.current_line) IN
        IF ~l.some THEN R(ed, PanicRes("unwrap on None"), <<>>)
        ELSE R(ed, OkRes("Continue"), <<OutLine(show_number, ed.current_line, l.text)>>)
    ELSE IF IsSome(start) /\ ~IsSome(end) THEN
        LET a == get_actual_line(ed, start) IN
        IF ~a.ok THEN R(ed, ErrRes("Invalid address"), <<>>)
        ELSE LET ed1 == [ed EXCEPT !.current_line = a.line]
                 l == get_line(ed1, a.line) IN
             IF ~l.some THEN R(ed1, PanicRes("unwrap on None"), <<>>)
             ELSE R(ed1, OkRes("Continue"), <<OutLine(show_number, a.line, l.text)>>)
    ELSE IF ~IsSome(start) /\ IsSome(end) THEN
        LET e == get_actual_line(ed, end) IN
        IF ~e.ok THEN R(ed, ErrRes("Invalid address"), <<>>)
        ELSE LET w == WriteLoop(ed, 1, e.line, show_number, <<>>) IN
             IF w.panic THEN R(ed, PanicRes("unwrap on None"), w.written)
             ELSE R([ed EXCEPT !.current_line = e.line], OkRes("Continue"), w.written)
    ELSE
        LET s == get_actual_line(ed, start)
            e == get_actual_line(ed, end) IN
        IF ~s.ok \/ ~e.ok THEN R(ed, ErrRes("Invalid address"), <<>>)
        ELSE LET w == WriteLoop(ed, s.line, e.line, show_number, <<>>) IN
             IF w.panic THEN R(ed, PanicRes("unwrap on None"), w.written)
             ELSE R([ed EXCEPT !.current_line = e.line], OkRes("Continue"), w.written)

\* write_range on the locked standard output
ToStdout(r) == [ed |-> [r.ed EXCEPT !.out = r.ed.out \o r.written], res |-> r.res]

print(ed, start, end) == ToStdout(write_range(ed, start, end, FALSE))

numbered(ed, start, end) == ToStdout(write_range(ed, start, end, TRUE))

noop(ed) ==
    IF ed.current_line < lines(ed)
    THEN print([ed EXCEPT !.current_line = ed.current_line + 1], None, None)
    ELSE Ok(ed, "Unknown")

help(ed) == Ok(ed, "Continue")

quit_keeps_dirty(ed, force) ==
    IF ~force /\ ed.dirty THEN Err(ed, "Warning: buffer modified") ELSE Ok(ed, "Quit")

quit(ed, force) ==
    IF ~force /\ ed.dirty
    THEN Err([ed EXCEPT !.dirty = FALSE], "Warning: buffer modified")
    ELSE Ok(ed, "Quit")

jump(ed, addr) ==
    LET target == CASE addr.t = "CurrentLine" -> [skip |-> TRUE, ok |-> TRUE, n |-> 0]
                    [] addr.t = "LastLine" -> [skip |-> FALSE, ok |-> TRUE, n |-> lines(ed)]
                    [] addr.t = "Numbered" -> [skip |-> FALSE, ok |-> TRUE, n |-> addr.n]
                    [] addr.t = "Offset" ->
                          [skip |-> FALSE, ok |-> ed.current_line + addr.n >= 1,
                           n |-> ed.current_line + addr.n]
    IN
    IF target.skip THEN print(ed, None, None)
    ELSE IF ~target.ok THEN Err(ed, "Invalid address")
    ELSE LET s == set_line(ed, target.n) IN
         IF ~s.ok THEN Err(ed, "Invalid address")
         ELSE print(s.ed, None, None)

ClampCursorOff(l, d) == l

\* `cmp::min(line, ed.data.len())`: the cursor after a deletion
ClampCursor(l, d) == Min(l, Len(d))

delete(ed, start, end) ==
    IF ed.data = <<>> THEN Err(ed, "Invalid address")
    ELSE IF ~IsSome(start) /\ ~IsSome(end) THEN
        LET l == ed.current_line IN
        IF ~VecCanRemove(ed.data, l - 1) THEN Panic(ed, "remove out of range")
        ELSE LET d == VecRemove(ed.data, l - 1) IN
             Ok([ed EXCEPT !.data = d, !.dirty = TRUE, !.current_line = ClampCursor(l, d)],
                "Continue")
    ELSE IF IsSome(start) /\ ~IsSome(end) THEN
        LET a == get_actual_line(ed, start) IN
        IF ~a.ok THEN Err(ed, "Invalid address")
        ELSE IF ~VecCanRemove(ed.data, a.line - 1) THEN Panic(ed, "remove out of range")
        ELSE LET d == VecRemove(ed.data, a.line - 1) IN
             Ok([ed EXCEPT !.data = d, !.dirty = TRUE,
                           !.current_line = ClampCursor(a.line, d)], "Continue")
    ELSE IF ~IsSome(start) /\ IsSome(end) THEN
        LET e == get_actual_line(ed, end) IN
        IF ~e.ok THEN Err(ed, "Invalid address")
        ELSE LET r == RemoveLoop(ed.data, 0, e.line, <<>>) IN
             IF r.panic THEN Panic([ed EXCEPT !.data = r.v], "remove out of range")
             ELSE Ok([ed EXCEPT !.data = r.v, !.dirty = TRUE,
                               !.current_line = ClampCursor(e.line, r.v)], "Continue")
    ELSE
        LET s == get_actual_line(ed, start)
            e == get_actual_line(ed, end) IN
        IF ~s.ok \/ ~e.ok THEN Err(ed, "Invalid address")
        ELSE LET r == RemoveLoop(ed.data, s.line - 1, e.line - s.line + 1, <<>>) IN
             IF r.panic THEN Panic([ed EXCEPT !.data = r.v], "remove out of range")
             ELSE Ok([ed EXCEPT !.data = r.v, !.dirty = TRUE,
                               !.current_line = ClampCursor(s.line, r.v)], "Continue")

FileBytesNone(written) == <<>>

\* what writeln! puts in a file for the records written: text and "\n"
RECURSIVE FileBytes(_)
FileBytes(written) ==
    IF written = <<>> THEN <<>>
    ELSE Head(written).text \o <<"\n">> \o FileBytes(Tail(written))

write(ed, start, end, file) ==
    LET p == IF file # NoPath THEN file ELSE ed.path IN
    IF p = NoPath THEN Ok(ed, "Unknown")
    ELSE
        LET whole == ~IsSome(start) /\ ~IsSome(end)
            s == IF whole THEN Numbered(1) ELSE start
            e == IF whole THEN LastLine ELSE end
            \* File::create truncates; write_range then writes line by line
            r == write_range(ed, s, e, FALSE)
            ed1 == [r.ed EXCEPT !.files[p] = FileBytes(r.written)]
        IN
        IF r.res.k # "Ok" THEN [ed |-> ed1, res |-> r.res]
        ELSE Ok([ed1 EXCEPT !.out = ed1.out \o <<OutCount(Len(ed1.files[p]))>>,
                            !.path = p, !.dirty = FALSE], "Continue")

insert_after(ed, before) ==
    LET a == IF IsSome(before) THEN get_actual_line(ed, before)
             ELSE [ok |-> TRUE, line |-> ed.current_line] IN
    IF ~a.ok THEN Err(ed, "Invalid address")
    ELSE Ok([ed EXCEPT !.current_line = a.line, !.mode = "Input"], "Continue")

insert(ed, before) ==
    LET a == IF IsSome(before) THEN get_actual_line(ed, before)
             ELSE [ok |-> TRUE, line |-> ed.current_line] IN
    IF ~a.ok THEN Err(ed, "Invalid address")
    ELSE LET addr == IF a.line > 0 THEN a.line - 1 ELSE a.line IN
         Ok([ed EXCEPT !.current_line = addr, !.mode = "Input"], "Continue")

append_before(ed, after) == insert(ed, after)

append(ed, after) ==
    LET a == IF IsSome(after) THEN get_actual_line(ed, after)
             ELSE [ok |-> TRUE, line |-> ed.current_line] IN
    IF ~a.ok THEN Err(ed, "Invalid address")
    ELSE Ok([ed EXCEPT !.current_line = a.line, !.mode = "Input"], "Continue")

\* an Edit that refuses a modified buffer, as classic ed does
edit_checks_dirty(ed, file) ==
    LET p == IF file # NoPath THEN file ELSE ed.path IN
    IF p = NoPath THEN Err(ed, "No current filename")
    ELSE IF ed.dirty THEN Err(ed, "Warning: buffer modified")
    ELSE LET l == load_file(ed, p) IN
         IF ~l.ok THEN Err(ed, "No such file") ELSE Ok(l.ed, "Continue")

edit(ed, file) ==
    LET p == IF file # NoPath THEN file ELSE ed.path IN
    IF p = NoPath THEN Err(ed, "No current filename")
    ELSE LET l == load_file(ed, p) IN
         IF ~l.ok THEN Err(ed, "No such file") ELSE Ok(l.ed, "Continue")

change(ed, start, end) ==
    LET d == delete(ed, start, end) IN
    IF d.res.k # "Ok" THEN d
    ELSE LET c == d.ed.current_line
             addr == IF c > 0 THEN c - 1 ELSE c IN
         Ok([d.ed EXCEPT !.current_line = addr, !.mode = "Input", !.dirty = TRUE],
            "Continue")

\* a loop that inserts every line at the same index
RECURSIVE ReadLoopFixed(_, _, _)
ReadLoopFixed(v, addr, ls) ==
    IF ls = <<>> THEN [panic |-> FALSE, v |-> v, addr |-> addr]
    ELSE IF v = <<>> THEN ReadLoopFixed(<<Head(ls)>>, addr, Tail(ls))
    ELSE IF ~VecCanInsert(v, addr) THEN [panic |-> TRUE, v |-> v, addr |-> addr]
    ELSE ReadLoopFixed(VecInsert(v, addr, Head(ls)), addr, Tail(ls))

\* `for line in data { push or insert(addr); addr += 1 }`
RECURSIVE ReadLoop(_, _, _)
ReadLoop(v, addr, ls) ==
    IF ls = <<>> THEN [panic |-> FALSE, v |-> v, addr |-> addr]
    ELSE IF v = <<>> THEN ReadLoop(<<Head(ls)>>, addr + 1, Tail(ls))
    ELSE IF ~VecCanInsert(v, addr) THEN [panic |-> TRUE, v |-> v, addr |-> addr]
    ELSE ReadLoop(VecInsert(v, addr, Head(ls)), addr + 1, Tail(ls))

read(ed, after, file) ==
    LET p == IF file # NoPath THEN file ELSE ed.path IN
    IF p = NoPath THEN Err(ed, "No current filename")
    ELSE LET l == load_data(ed, p) IN
         IF ~l.ok THEN Err(ed, "No such file")
         ELSE LET a == IF IsSome(after) THEN get_actual_line(ed, after)
                       ELSE [ok |-> TRUE, line |-> ed.current_line] IN
              IF ~a.ok THEN Err(ed, "Invalid address")
              ELSE LET r == ReadLoop(ed.data, a.line, l.data) IN
                   IF r.panic THEN Panic([ed EXCEPT !.data = r.v], "insert out of range")
                   ELSE Ok([ed EXCEPT !.data = r.v, !.dirty = TRUE,
                                     !.current_line = r.addr,
                                     !.out = ed.out \o <<OutCount(SizeOf(l.data))>>],
                           "Continue")

InsideRangeOffByOne(d, a, e) == d > a /\ d <= e

\* `dest >= start && dest <= end`: the destination lies in the source range
InsideRange(d, a, e) == d >= a /\ d <= e

AdjustDestNone(d, e, n) == d

\* `if end < dest { dest -= lines.len() }`: the destination once the n lines
\* of the range are taken out
AdjustDest(d, e, n) == IF e < d THEN d - n ELSE d

move_lines(ed, start, end, dest) ==
    IF ed.data = <<>> THEN Ok(ed, "Continue")
    ELSE
    LET d == get_actual_line(ed, dest) IN
    IF ~d.ok THEN Err(ed, "Invalid address")
    ELSE IF ~IsSome(start) /\ ~IsSome(end) THEN
        LET line_no == ed.current_line IN
        IF line_no = d.line THEN Err(ed, "Invalid destination")
        ELSE IF ~VecCanRemove(ed.data, line_no - 1) THEN Panic(ed, "remove out of range")
        ELSE LET dst == IF d.line > line_no THEN d.line - 1 ELSE d.line
                 v == VecInsert(VecRemove(ed.data, line_no - 1), dst, ed.data[line_no])
                 s == set_line([ed EXCEPT !.data = v], dst) IN
             IF ~s.ok THEN Err(s.ed, "Invalid address")
             ELSE Ok([s.ed EXCEPT !.dirty = TRUE], "Continue")
    ELSE IF IsSome(start) /\ ~IsSome(end) THEN
        LET a == get_actual_line(ed, start) IN
        IF ~a.ok THEN Err(ed, "Invalid address")
        ELSE IF a.line = d.line THEN Err(ed, "Invalid destination")
        ELSE IF ~VecCanRemove(ed.data, a.line - 1) THEN Panic(ed, "remove out of range")
        ELSE LET dst == IF d.line > a.line THEN d.line - 1 ELSE d.line
                 v == VecInsert(VecRemove(ed.data, a.line - 1), dst, ed.data[a.line])
                 s == set_line([ed EXCEPT !.data = v], Max(dst, 1)) IN
             IF ~s.ok THEN Err(s.ed, "Invalid address")
             ELSE Ok([s.ed EXCEPT !.dirty = TRUE], "Continue")
    ELSE IF ~IsSome(start) /\ IsSome(end) THEN
        LET e == get_actual_line(ed, end) IN
        IF ~e.ok THEN Err(ed, "Invalid address")
        ELSE IF d.line <= e.line THEN Err(ed, "Invalid destination")
        ELSE LET r == RemoveLoop(ed.data, 0, e.line, <<>>) IN
             IF r.panic THEN Panic([ed EXCEPT !.data = r.v], "remove out of range")
             ELSE LET i == InsertLoop(r.v, d.line - Len(r.taken), r.taken) IN
                  IF i.panic THEN Panic([ed EXCEPT !.data = i.v], "insert out of range")
                  ELSE LET s == set_line([ed EXCEPT !.data = i.v], i.dest) IN
                       IF ~s.ok THEN Err(s.ed, "Invalid address")
                       ELSE Ok([s.ed EXCEPT !.dirty = TRUE], "Continue")
    ELSE
        LET a == get_actual_line(ed, start)
            e == get_actual_line(ed, end) IN
        IF ~a.ok \/ ~e.ok THEN Err(ed, "Invalid address")
        ELSE IF InsideRange(d.line, a.line, e.line) THEN Err(ed, "Invalid destination")
        ELSE LET r == RemoveLoop(ed.data, a.line - 1, e.line - a.line + 1, <<>>) IN
             IF r.panic THEN Panic([ed EXCEPT !.data = r.v], "remove out of range")
             ELSE LET dst == AdjustDest(d.line, e.line, Len(r.taken))
                      i == InsertLoop(r.v, dst, r.taken) IN
                  IF i.panic THEN Panic([ed EXCEPT !.data = i.v], "insert out of range")
                  ELSE LET s == set_line([ed EXCEPT !.data = i.v], i.dest) IN
                       IF ~s.ok THEN Err(s.ed, "Invalid address")
                       ELSE Ok([s.ed EXCEPT !.dirty = TRUE], "Continue")

----------------------------------------------------------------------------
(* Regex, for the patterns that are a literal text: "(" alone does not      *)
(* compile; the empty pattern matches the empty text at every position.    *)
(* The replacement is a literal text (no "$").                             *)

RegexCompiles(re) == re # <<"(">>

MatchesAt(re, text, i) ==
    i + Len(re) - 1 <= Len(text) /\ \A j \in 1..Len(re) : text[i + j - 1] = re[j]

\* Regex::replace_all (all = TRUE) and Regex::replace, scanning from position i
RECURSIVE Replace(_, _, _, _, _)
Replace(re, text, rep, all, i) ==
    IF i > Len(text) + 1 THEN <<>>
    ELSE IF MatchesAt(re, text, i) THEN
        LET step == IF re = <<>> THEN 1 ELSE Len(re)
            kept == IF re = <<>> /\ i <= Len(text) THEN <<text[i]>> ELSE <<>> IN
        IF all THEN rep \o kept \o Replace(re, text, rep, all, i + step)
        ELSE rep \o SubSeq(text, i + Len(re), Len(text))
    ELSE IF i > Len(text) THEN <<>>
    ELSE <<text[i]>> \o Replace(re, text, rep, all, i + 1)

\* str::find('/'): the 0-based index of the first "/", or -1
RECURSIVE FindSlash(_, _)
FindSlash(str, i) ==
    IF i > Len(str) THEN -1 ELSE IF str[i] = "/" THEN i - 1 ELSE FindSlash(str, i + 1)

\* flags.chars().any(|c| c == 'g')
HasG(flags) == \E i \in 1..Len(flags) : flags[i] = "g"

\* `for (line, idx) in ed.data[start..end].iter_mut().zip(start..end)`
RECURSIVE SubstLoop(_, _, _, _, _, _, _)
SubstLoop(v, idx, end, re, rep, all, modified) ==
    IF idx >= end THEN [v |-> v, modified |-> modified]
    ELSE LET new == Replace(re, v[idx + 1], rep, all, 1) IN
         IF new = v[idx + 1] THEN SubstLoop(v, idx + 1, end, re, rep, all, modified)
         ELSE SubstLoop([v EXCEPT ![idx + 1] = new], idx + 1, end, re, rep, all, idx + 1)

NoArg == <<"NoArg">>

substitute(ed, start, end, arg) ==
    IF arg = NoArg THEN Err(ed, "No previous substitution")
    ELSE IF arg = <<>> THEN Panic(ed, "slice index out of range")
    ELSE IF arg[1] # "/" THEN Err(ed, "Missing pattern delimiter")
    ELSE
    LET arg1 == Tail(arg)
        regex_end == FindSlash(arg1, 1) IN
    IF regex_end < 0 THEN Err(ed, "Missing pattern delimiter")
    ELSE
    LET re == SubSeq(arg1, 1, regex_end)
        rest == SubSeq(arg1, regex_end + 2, Len(arg1))
        idx == FindSlash(rest, 1)
        flags == IF idx < 0 THEN <<>> ELSE SubSeq(rest, idx + 2, Len(rest))
        replacement == IF idx < 0 THEN rest ELSE SubSeq(rest, 1, idx) IN
    IF ~RegexCompiles(re) THEN Err(ed, "No match")
    ELSE
    LET all == HasG(flags)
        s == IF IsSome(start) THEN get_actual_line(ed, start)
             ELSE [ok |-> TRUE, line |-> ed.current_line]
        e == IF IsSome(end) THEN get_actual_line(ed, end)
             ELSE [ok |-> TRUE, line |-> ed.current_line] IN
    IF ~s.ok \/ ~e.ok THEN Err(ed, "Invalid address")
    ELSE IF s.line = 0 THEN Err(ed, "Invalid address")
    ELSE IF s.line - 1 > e.line \/ e.line > lines(ed)
         THEN Panic(ed, "slice index out of range")
    ELSE LET r == SubstLoop(ed.data, s.line - 1, e.line, re, replacement, all, 0) IN
         IF r.modified = 0 THEN Err(ed, "No match")
         ELSE LET sl == set_line([ed EXCEPT !.data = r.v, !.dirty = TRUE], r.modified) IN
              IF ~sl.ok THEN Err(sl.ed, "Invalid address")
              ELSE print(sl.ed, None, None)
----------------------------------------------------------------------------
(* Command values (commands.rs 29-83), one record shape for all variants *)

Cmd(op, start, end, dest, file, arg, force) ==
    [op |-> op, start |-> start, end |-> end, dest |-> dest,
     file |-> file, arg |-> arg, force |-> force]

Simple(op) == Cmd(op, None, None, None, NoPath, NoArg, FALSE)
Ranged(op, start, end) == Cmd(op, start, end, None, NoPath, NoArg, FALSE)
NoCmd == Simple("None")
\* a line whose tokens parse_command rejects (parser.rs 14-24: a bad address)
SyntaxError == Simple("SyntaxError")

execute(ed, c) ==
    CASE c.op = "Noop" -> noop(ed)
      [] c.op = "Help" -> help(ed)
      [] c.op = "Quit" -> quit(ed, c.force)
      [] c.op = "Jump" -> jump(ed, c.start)
      [] c.op = "Print" -> print(ed, c.start, c.end)
      [] c.op = "Numbered" -> numbered(ed, c.start, c.end)
      [] c.op = "Delete" -> delete(ed, c.start, c.end)
      [] c.op = "Write" -> write(ed, c.start, c.end, c.file)
      [] c.op = "Insert" -> insert(ed, c.start)
      [] c.op = "Append" -> append(ed, c.start)
      [] c.op = "Edit" -> edit(ed, c.file)
      [] c.op = "Change" -> change(ed, c.start, c.end)
      [] c.op = "Read" -> read(ed, c.start, c.file)
      [] c.op = "Move" -> move_lines(ed, c.start, c.end, c.dest)
      [] c.op = "Substitute" -> substitute(ed, c.start, c.end, c.arg)

\* parse_command(line.trim())?, then command.execute(self)
dispatch_command(ed, c) ==
    IF c.op = "SyntaxError" THEN Err(ed, "Invalid address") ELSE execute(ed, c)

EndsInputWrongLiteral(text) == text = <<".", ".">>

\* `line == "."`: the line that closes an Input block
EndsInput(text) == text = Dot

dispatch_input(ed, text) ==
    IF EndsInput(text) THEN Ok([ed EXCEPT !.mode = "Command"], "Continue")
    ELSE LET idx == ed.current_line IN
         IF ed.data # <<>> /\ ~VecCanInsert(ed.data, idx)
         THEN Panic(ed, "insert out of range")
         ELSE Ok([ed EXCEPT !.data = IF ed.data = <<>> THEN <<text>>
                                      ELSE VecInsert(ed.data, idx, text),
                           !.current_line = ed.current_line + 1,
                           !.dirty = TRUE], "Continue")

dispatch(ed, l) ==
    IF ed.mode = "Command" THEN dispatch_command(ed, l) ELSE dispatch_input(ed, l)

----------------------------------------------------------------------------
(* The state machine *)

\* the editor as the record the operators above work on
Ed ==
    [data |-> data, current_line |-> current_line, mode |-> mode, path |-> path,
     dirty |-> dirty, files |-> files, out |-> <<>>]

NoOld ==
    [data |-> <<>>, current_line |-> 0, mode |-> "Command", path |-> NoPath,
     dirty |-> FALSE, files |-> [p \in Paths |-> NoFile], out |-> <<>>]

NoBlock == [cmd |-> NoCmd, old |-> NoOld, typed |-> <<>>]

\* Red::new(prompt, path): nothing loaded, or the lines of the file at `path`
New(fs, p) ==
    LET d == IF p = NoPath \/ fs[p] = NoFile THEN <<>> ELSE SplitLines(fs[p], <<>>, <<>>) IN
    /\ files = fs
    /\ path = p
    /\ data = d
    /\ current_line = Len(d)
    /\ mode = "Command"
    /\ dirty = FALSE
    /\ pc = "prompt"
    /\ line = NoCmd
    /\ res = NoRes
    /\ out = <<>>
    /\ old = NoOld
    /\ block = NoBlock

\* the length of the longest line of a buffer
Longest(d) == IF d = <<>> THEN 0 ELSE CHOOSE n \in {Len(d[i]) : i \in 1..Len(d)} :
                                          \A i \in 1..Len(d) : Len(d[i]) <= n

\* a size n is within its bound, or no more than it was
Within(n, was, bound) == IF n <= bound THEN TRUE ELSE n <= was

\* one call of Red::dispatch with the line l; the buffer grows to MaxLines
\* lines and a line to MaxText characters, and no further
Dispatch(l) ==
    /\ \E r \in {dispatch(Ed, l)} :
        /\ Within(Len(r.ed.data), Len(data), MaxLines)
        /\ Within(Longest(r.ed.data), Longest(data), MaxText)
        /\ pc' = "result"
        /\ line' = l
        /\ res' = r.res
        /\ out' = r.ed.out
        /\ old' = Ed
        /\ data' = r.ed.data
        /\ current_line' = r.ed.current_line
        /\ mode' = r.ed.mode
        /\ path' = r.ed.path
        /\ dirty' = r.ed.dirty
        /\ files' = r.ed.files
        /\ block' = IF mode = "Command"
                    THEN (IF r.ed.mode = "Input"
                          THEN [cmd |-> l, old |-> Ed, typed |-> <<>>] ELSE NoBlock)
                    ELSE (IF l = Dot THEN block
                          ELSE [block EXCEPT !.typed = Append(block.typed, l)])

\* the caller's loop: the outcome is shown and the next line is awaited; the
\* loop ends on Quit, and nothing runs after the process aborted
Prompt ==
    /\ pc = "result"
    /\ res.k # "Panic"
    /\ res # OkRes("Quit")
    /\ pc' = "prompt"
    /\ line' = NoCmd
    /\ res' = NoRes
    /\ out' = <<>>
    /\ old' = NoOld
    /\ block' = IF mode = "Command" THEN NoBlock ELSE block
    /\ UNCHANGED <<data, current_line, mode, path, dirty, files>>

\* the vocabulary of addresses for buffers of up to n lines, and with None
AddrsTo(n) ==
    {CurrentLine, LastLine, Offset(-1), Offset(1)} \cup {Numbered(k) : k \in 0..n}
Opt(A) == A \cup {None}

\* arguments of s: d -> q, q -> d, a text with no leading "/", and none
SubstDQ == <<"/", "d", "/", "q", "/">>
SubstQD == <<"/", "q", "/", "d">>
SubstArgs == {SubstDQ, SubstQD, <<"d">>, NoArg}

\* a line is awaited, in Command mode and in Input mode
AtCommand == pc = "prompt" /\ mode = "Command"
AtInput == pc = "prompt" /\ mode = "Input"

DoNoop == AtCommand /\ Dispatch(Simple("Noop"))
DoHelp == AtCommand /\ Dispatch(Simple("Help"))
DoSyntaxError == AtCommand /\ Dispatch(SyntaxError)
DoQuit == AtCommand /\ \E f \in BOOLEAN : Dispatch(Cmd("Quit", None, None, None, NoPath, NoArg, f))
DoJump(A) == AtCommand /\ \E a \in A : Dispatch(Ranged("Jump", a, None))
DoPrint(A) == AtCommand /\ \E a, b \in Opt(A) : Dispatch(Ranged("Print", a, b))
DoNumbered(A) == AtCommand /\ \E a, b \in Opt(A) : Dispatch(Ranged("Numbered", a, b))
DoDelete(A) == AtCommand /\ \E a, b \in Opt(A) : Dispatch(Ranged("Delete", a, b))
DoInsert(A) == AtCommand /\ \E a \in Opt(A) : Dispatch(Ranged("Insert", a, None))
DoAppend(A) == AtCommand /\ \E a \in Opt(A) : Dispatch(Ranged("Append", a, None))
DoChange(A) == AtCommand /\ \E a, b \in Opt(A) : Dispatch(Ranged("Change", a, b))
DoMove(A) ==
    AtCommand /\ \E a, b \in Opt(A), d \in A :
        Dispatch(Cmd("Move", a, b, d, NoPath, NoArg, FALSE))
DoSubstitute(A, G) ==
    AtCommand /\ \E a, b \in Opt(A), g \in G :
        Dispatch(Cmd("Substitute", a, b, None, NoPath, g, FALSE))
DoWrite(A) ==
    AtCommand /\ \E a, b \in Opt(A), f \in Paths \cup {NoPath} :
        Dispatch(Cmd("Write", a, b, None, f, NoArg, FALSE))
DoEdit ==
    AtCommand /\ \E f \in Paths \cup {NoPath} :
        Dispatch(Cmd("Edit", None, None, None, f, NoArg, FALSE))
DoRead(A) ==
    AtCommand /\ \E a \in Opt(A), f \in Paths \cup {NoPath} :
        Dispatch(Cmd("Read", a, None, None, f, NoArg, FALSE))

\* a line typed in Input mode: a text of T, or "."
InputText(T) == AtInput /\ \E t \in T : Dispatch(t)
InputDot == AtInput /\ Dispatch(Dot)

Editing(A) ==
    \/ DoNoop \/ DoHelp \/ DoSyntaxError \/ DoQuit \/ DoJump(A) \/ DoPrint(A)
    \/ DoNumbered(A) \/ DoDelete(A) \/ DoInsert(A) \/ DoAppend(A) \/ DoChange(A)
    \/ DoMove(A)

(* The editor without the file commands, over two texts *)
Init == New([p \in Paths |-> NoFile], NoPath)

Next ==
    \/ Editing(AddrsTo(MaxLines)) \/ DoSubstitute(AddrsTo(MaxLines), SubstArgs)
    \/ InputText(Texts) \/ InputDot \/ Prompt

Spec == Init /\ [][Next]_vars

(* The editor with every command, over one text: every line typed or read  *)
(* is "d", and no s command changes a line                                 *)
InitFiles == {NoFile, TextD \o <<"\n">> \o TextD \o <<"\n">>}

InitAll == \E fs \in [Paths -> InitFiles], p \in Paths \cup {NoPath} : New(fs, p)

NextAll ==
    \/ Editing(AddrsTo(MaxLines))
    \/ DoSubstitute(AddrsTo(MaxLines), {SubstQD, <<"d">>, NoArg})
    \/ DoWrite(AddrsTo(MaxLines)) \/ DoEdit \/ DoRead(AddrsTo(MaxLines))
    \/ InputText({TextD}) \/ InputDot \/ Prompt

SpecAll == InitAll /\ [][NextAll]_vars

(* The editor started on a file of up to MaxLoaded lines, all different:   *)
(* Red::new loads it and the cursor is on its last line                    *)
MaxLoaded == 4

\* line i of the file: "d" i times
NthText(i) == [j \in 1..i |-> "d"]

RECURSIVE LinesToBytes(_)
LinesToBytes(ls) ==
    IF ls = <<>> THEN <<>> ELSE Head(ls) \o <<"\n">> \o LinesToBytes(Tail(ls))

InitLoaded ==
    \E n \in 0..MaxLoaded :
        New([p \in Paths |-> LinesToBytes([i \in 1..n |-> NthText(i)])], "f")

(* ... and given Delete commands (and Jump and Print, to move the cursor) *)
NextDelete ==
    \/ DoJump(AddrsTo(MaxLoaded)) \/ DoPrint(AddrsTo(MaxLoaded))
    \/ DoDelete(AddrsTo(MaxLoaded)) \/ Prompt

SpecDelete == InitLoaded /\ [][NextDelete]_vars

(* ... and given Move commands (and Jump, to move the cursor) *)
NextMove == DoJump(AddrsTo(MaxLoaded)) \/ DoMove(AddrsTo(MaxLoaded)) \/ Prompt

SpecMove == InitLoaded /\ [][NextMove]_vars

(* The editor started on a file of three lines, "dd", "q" and "d", or on *)
(* its first lines only, and given Substitute commands (and Jump)          *)
SubstLines == << <<"d", "d">>, <<"q">>, <<"d">> >>

InitSubst ==
    \E n \in 0..Len(SubstLines) :
        New([p \in Paths |-> LinesToBytes(SubSeq(SubstLines, 1, n))], "f")

\* more arguments of s: every d -> q; the empty pattern; no second "/"; a
\* pattern that is no regular expression
SubstDQG == <<"/", "d", "/", "q", "/", "g">>
SubstEmpty == <<"/", "/", "q", "/">>
SubstNoSecond == <<"/", "d">>
SubstBadRe == <<"/", "(", "/", "q", "/">>
SubstAllArgs ==
    {SubstDQ, SubstDQG, SubstEmpty, SubstNoSecond, SubstBadRe, <<"d">>, NoArg}

\* the addresses that do not depend on the cursor
AbsAddrsTo(n) == {LastLine} \cup {Numbered(k) : k \in 0..n}

NextSubst ==
    \/ DoJump(AbsAddrsTo(Len(SubstLines)))
    \/ DoSubstitute(AbsAddrsTo(Len(SubstLines)), SubstAllArgs)
    \/ Prompt

SpecSubst == InitSubst /\ [][NextSubst]_vars

(* The editor with the file commands, over a text and a text that ends in *)
(* a carriage return; the file, when there is one, has a line ending in    *)
(* carriage return and line feed                                           *)
TextCR == <<"d", "\r">>
CrLfFile == <<"q", "\r", "\n", "d", "\n">>

InitFile ==
    \E fs \in [Paths -> {NoFile, CrLfFile}], p \in Paths \cup {NoPath} : New(fs, p)

NextFile ==
    \/ DoAppend(AbsAddrsTo(MaxLines)) \/ InputText({TextD, TextCR}) \/ InputDot
    \/ DoWrite(AbsAddrsTo(MaxLines)) \/ DoEdit \/ DoRead(AbsAddrsTo(MaxLines))
    \/ Prompt

SpecFile == InitFile /\ [][NextFile]_vars

----------------------------------------------------------------------------
(* tokenize (tokenizer.rs) and parse (parser.rs)                           *)
(* A line is a sequence of characters; "é" stands for the characters that  *)
(* take more than one byte in UTF-8, where the code slices by byte index   *)

COMMANDS == {"p", "n", "w", "d", "a", "i", "c", "h", "q", "Q", "e", "r", "m", "s", "g"}

Wide == {"é"}

\* Token (tokenizer.rs 22-29): a kind and the text it carries
Token(kind, text) == [kind |-> kind, text |-> text]

\* str::find with a predicate: the first index of a character of S, 0 for None
RECURSIVE Find(_, _, _)
Find(str, S, i) ==
    IF i > Len(str) THEN 0
    ELSE IF str[i] \in S THEN i ELSE Find(str, S, i + 1)

\* str::trim, for the white space " "
RECURSIVE trim(_)
trim(str) ==
    IF str = <<>> THEN str
    ELSE IF Head(str) = " " THEN trim(Tail(str))
    ELSE IF str[Len(str)] = " " THEN trim(SubSeq(str, 1, Len(str) - 1))
    ELSE str

\* `line.find(|c| COMMANDS.contains(&c))`
CommandIdx(l) == Find(l, COMMANDS, 1)

\* the tokens of the address portion: [Address] [Separator] [Address]
AddrTokens(addr_part) ==
    LET addr_separator_idx == Find(addr_part, {",", ";"}, 1)
        addr == SubSeq(addr_part, 1, addr_separator_idx - 1)
        rest_addr == IF addr_separator_idx = 0 THEN addr_part
                     ELSE SubSeq(addr_part, addr_separator_idx + 1, Len(addr_part))
    IN
    (IF addr_separator_idx = 0 THEN <<>>
     ELSE (IF addr # <<>> THEN <<Token("Address", addr)>> ELSE <<>>)
              \o <<Token("Separator", <<addr_part[addr_separator_idx]>>)>>)
    \o (IF rest_addr # <<>> THEN <<Token("Address", rest_addr)>> ELSE <<>>)

\* the tokens after the command letter: [Suffix] [Argument]
TailTokens(l, after_cmd_idx) ==
    IF l[after_cmd_idx] = " " THEN
        LET arg == trim(SubSeq(l, after_cmd_idx + 1, Len(l))) IN
        IF arg # <<>> THEN <<Token("Argument", arg)>> ELSE <<>>
    ELSE
        LET arg == SubSeq(l, after_cmd_idx, Len(l))
            before_arg == Find(arg, {" "}, 1) IN
        IF before_arg = 0 THEN <<Token("Suffix", arg)>>
        ELSE <<Token("Suffix", SubSeq(arg, 1, before_arg - 1))>>
                \o (IF before_arg < Len(arg)
                    THEN <<Token("Argument", SubSeq(arg, before_arg + 1, Len(arg)))>>
                    ELSE <<>>)

\* tokenize: Ok(tokens); `line[after_cmd_idx..=after_cmd_idx]` takes one byte
\* and aborts when the character there is wider
tokenize(l) ==
    LET command_idx == CommandIdx(l)
        addr_part == IF command_idx = 0 THEN l ELSE SubSeq(l, 1, command_idx - 1)
        cmd == IF command_idx = 0 THEN <<>> ELSE <<Token("Command", <<l[command_idx]>>)>>
        after_cmd_idx == IF command_idx = 0 THEN Len(l) + 1 ELSE command_idx + 1
    IN
    IF after_cmd_idx > Len(l) THEN OkRes(AddrTokens(addr_part) \o cmd)
    ELSE IF l[after_cmd_idx] \in Wide THEN PanicRes("byte index is not a char boundary")
    ELSE OkRes(AddrTokens(addr_part) \o cmd \o TailTokens(l, after_cmd_idx))

Digits == {"0", "1", "2", "3", "4", "5", "6", "7", "8", "9"}

DigitValue(c) ==
    CASE c = "0" -> 0 [] c = "1" -> 1 [] c = "2" -> 2 [] c = "3" -> 3 [] c = "4" -> 4
      [] c = "5" -> 5 [] c = "6" -> 6 [] c = "7" -> 7 [] c = "8" -> 8 [] c = "9" -> 9

\* str::parse::<usize> of a text of digits: its value, or -1 for an error
RECURSIVE ParseDigits(_, _)
ParseDigits(str, acc) ==
    IF str = <<>> THEN acc
    ELSE IF Head(str) \notin Digits THEN -1
    ELSE ParseDigits(Tail(str), 10 * acc + DigitValue(Head(str)))

\* parse_address (parser.rs 7-25); `&addr[0..1]` takes one byte
parse_address(addr) ==
    IF addr = <<".">> THEN OkRes(CurrentLine)
    ELSE IF addr = <<"$">> THEN OkRes(LastLine)
    ELSE IF addr[1] \in Wide THEN PanicRes("byte index is not a char boundary")
    ELSE IF addr[1] \in {"+", "-"} THEN
        LET n == IF Len(addr) = 1 THEN -1 ELSE ParseDigits(Tail(addr), 0) IN
        IF n < 0 THEN ErrRes("Invalid address")
        ELSE OkRes(Offset(IF addr[1] = "-" THEN 0 - n ELSE n))
    ELSE
        LET n == ParseDigits(addr, 0) IN
        IF n < 0 THEN ErrRes("Invalid address") ELSE OkRes(Numbered(n))

\* the variables of parse before its loop (parser.rs 32-37)
ParseStart ==
    [start |-> None, end |-> None, arg |-> NoPath, cmd |-> "", first_addr |-> FALSE,
     separator_found |-> FALSE, res |-> OkRes("")]

\* `for token in tokens { match token { ... } }` (parser.rs 39-60); the `?`
\* on parse_address leaves the loop
RECURSIVE ParseLoop(_, _)
ParseLoop(tokens, st) ==
    IF tokens = <<>> THEN st
    ELSE
        LET token == Head(tokens) IN
        IF token.kind = "Address" THEN
            LET a == parse_address(token.text) IN
            IF a.k # "Ok" THEN [st EXCEPT !.res = a]
            ELSE IF ~st.first_addr
            THEN ParseLoop(Tail(tokens), [st EXCEPT !.start = a.v, !.first_addr = TRUE])
            ELSE ParseLoop(Tail(tokens), [st EXCEPT !.end = a.v])
        ELSE IF token.kind = "Separator"
        THEN ParseLoop(Tail(tokens), [st EXCEPT !.separator_found = TRUE, !.first_addr = TRUE])
        ELSE IF token.kind = "Argument"
        THEN ParseLoop(Tail(tokens), [st EXCEPT !.arg = token.text])
        ELSE IF token.kind = "Command"
        THEN ParseLoop(Tail(tokens), [st EXCEPT !.cmd = token.text[1]])
        ELSE ParseLoop(Tail(tokens), st)

\* a parser that leaves the range as the addresses gave it
FixUpNone(st) == st

\* "If there was a separator, fix up the range to cover all" (parser.rs 62-66)
FixUp(st) ==
    IF st.separator_found /\ ~IsSome(st.start) /\ ~IsSome(st.end)
    THEN [st EXCEPT !.start = Numbered(1), !.end = LastLine]
    ELSE st

\* Option::or
OrElse(a, b) == IF IsSome(a) THEN a ELSE b

\* the Command for a letter (parser.rs 78-98)
CommandOf(c, start, end, arg) ==
    CASE c = "p" -> Ranged("Print", start, end)
      [] c = "n" -> Ranged("Numbered", start, end)
      [] c = "d" -> Ranged("Delete", start, end)
      [] c = "w" -> Cmd("Write", start, end, None, arg, NoArg, FALSE)
      [] c = "i" -> Ranged("Insert", OrElse(start, end), None)
      [] c = "a" -> Ranged("Append", OrElse(end, start), None)
      [] c = "h" -> Simple("Help")
      [] c = "q" -> Simple("Quit")
      [] c = "e" -> Cmd("Edit", None, None, None, arg, NoArg, FALSE)
      [] c = "c" -> Ranged("Change", start, end)
      [] OTHER -> Simple("Noop")

\* parse (parser.rs 27-100): Ok(Command), or the error of parse_address
parse(tokens) ==
    IF tokens = <<>> THEN OkRes(Simple("Noop"))
    ELSE
        LET l == ParseLoop(tokens, ParseStart) IN
        IF l.res.k # "Ok" THEN l.res
        ELSE
            LET st == FixUp(l) IN
            IF st.cmd = "" THEN
                IF IsSome(st.start) /\ ~IsSome(st.end)
                THEN OkRes(Ranged("Jump", st.start, None))
                ELSE OkRes(Simple("Noop"))
            ELSE OkRes(CommandOf(st.cmd, st.start, st.end, st.arg))

\* Red::parse_command (red.rs 92-99)
parse_command(l) ==
    LET tokens == tokenize(l) IN
    IF tokens.k # "Ok" THEN tokens ELSE parse(tokens.v)

\* all the lines of up to n characters of A
LinesOver(A, n) == UNION {[1..k -> A] : k \in 0..n}

\* a line has been read and nothing was done with it yet
Typed(L) ==
    /\ files = [p \in Paths |-> NoFile]
    /\ path = NoPath /\ data = <<>> /\ current_line = 0 /\ mode = "Command"
    /\ dirty = FALSE /\ res = NoRes /\ out = <<>> /\ old = NoOld /\ block = NoBlock
    /\ pc = "typed"
    /\ line \in L

(* The tokenizer applied to every line of up to MaxTyped characters: one   *)
(* of each class (address text, separator, command letter, space, wide)   *)
MaxTyped == 7
TokChars == {"1", ",", "p", " ", "é"}

Tokenize ==
    /\ pc = "typed"
    /\ res' = tokenize(line)
    /\ pc' = "tokenized"
    /\ UNCHANGED <<data, current_line, mode, path, dirty, files, line, out, old, block>>

InitTokenize == Typed(LinesOver(TokChars, MaxTyped))

SpecTokenize == InitTokenize /\ [][Tokenize]_vars

(* The parser applied to the tokens of every line of up to MaxCommand     *)
(* characters, as dispatch_command does: parse_command(line.trim())        *)
MaxCommand == 4
CommandChars == {"1", "2", ",", ";", "$", "-", "p", "n", "d", "w", "c", "i", "a", "m"}

ParseCommand ==
    /\ pc = "typed"
    /\ out' = tokenize(trim(line))
    /\ res' = parse_command(trim(line))
    /\ pc' = "parsed"
    /\ UNCHANGED <<data, current_line, mode, path, dirty, files, line, old, block>>

InitParse == Typed(LinesOver(CommandChars, MaxCommand))

SpecParse == InitParse /\ [][ParseCommand]_vars

(* The parser applied to every line of up to MaxLetters characters over    *)
(* all the command letters, an address, a space and a delimiter            *)
MaxLetters == 3
LetterChars == COMMANDS \cup {"1", " ", "/"}

InitLetters == Typed(LinesOver(LetterChars, MaxLetters))

SpecLetters == InitLetters /\ [][ParseCommand]_vars

----------------------------------------------------------------------------
(* Properties *)

\* the line an address names in the editor state o, as a number
LineOf(o, a) ==
    CASE a.t = "CurrentLine" -> o.current_line
      [] a.t = "LastLine" -> Len(o.data)
      [] a.t = "Numbered" -> a.n
      [] a.t = "Offset" -> o.current_line + a.n
      [] a.t = "None" -> o.current_line

\* the range of a command in the state o: no address, the cursor line;
\* a start only, that line; an end only, line 1 to the end; both, as given
RangeStart(o, c) ==
    IF IsSome(c.start) THEN LineOf(o, c.start)
    ELSE IF IsSome(c.end) THEN 1 ELSE o.current_line
RangeEnd(o, c) ==
    IF IsSome(c.end) THEN LineOf(o, c.end)
    ELSE IF IsSome(c.start) THEN LineOf(o, c.start) ELSE o.current_line
ValidRange(o, c) ==
    1 <= RangeStart(o, c) /\ RangeStart(o, c) <= RangeEnd(o, c)
        /\ RangeEnd(o, c) <= Len(o.data)

\* B with the lines s..e replaced by t
Splice(B, s, e, t) == SubSeq(B, 1, s - 1) \o t \o SubSeq(B, e + 1, Len(B))

\* the last dispatch was of a command (not of a line of an Input block)
Ran(op) == pc = "result" /\ old.mode = "Command" /\ line.op = op

\* C1: no dispatched line aborts the process: dispatch always returns an
\* outcome or an error value
C1_NeverAborts == res.k # "Panic"

\* C2: a command other than an unforced Quit that returns an error leaves the
\* buffer, the cursor and the dirty flag as they were
C2_ErrorLeavesState ==
    (pc = "result" /\ old.mode = "Command" /\ res.k = "Err"
        /\ ~(line.op = "Quit" /\ ~line.force))
    => (data = old.data /\ current_line = old.current_line /\ dirty = old.dirty)

\* C3: in every reachable state the cursor is within 0..number of lines
C3_CursorInRange == 0 <= current_line /\ current_line <= Len(data)

C3_Witness ==
    /\ Ran("Delete") /\ res = OkRes("Continue")
    /\ old.current_line = Len(old.data) /\ Len(data) < Len(old.data)
    /\ current_line = Len(data) /\ Len(data) > 0

\* C4: in Command mode the cursor is 0 if and only if the buffer is empty
C4_CursorZeroIffEmpty ==
    (mode = "Command" /\ res.k # "Panic") => (current_line = 0 <=> data = <<>>)

\* the commands that open an Input block
IAC == {"Insert", "Append", "Change"}

C5_Step ==
    /\ mode' # mode => (pc = "prompt" /\ pc' = "result")
    /\ (pc = "prompt" /\ pc' = "result" /\ mode = "Command") =>
          /\ mode' = "Input" => (line'.op \in IAC /\ res' = OkRes("Continue"))
          /\ (line'.op \in IAC /\ res'.k # "Ok") => mode' = "Command"
          /\ line'.op \notin IAC => mode' = "Command"
    /\ (pc = "prompt" /\ pc' = "result" /\ mode = "Input") =>
          /\ mode' = "Command" <=> line' = Dot
          /\ line' # Dot =>
                /\ mode' = "Input"
                /\ res' = OkRes("Continue")
                /\ data' = Splice(data, current_line + 1, current_line, <<line'>>)
                /\ out' = <<>> /\ path' = path /\ files' = files

\* C5: the mode starts as Command; it becomes Input only by a successful
\* Insert, Append or Change, and Command again only by the line "."; a failing
\* Insert, Append or Change and every other command leave it Command; in
\* Input mode a line other than "." is inserted in the buffer, not executed
C5_ModeMachine == mode = "Command" /\ [][C5_Step]_vars

C5_Witness ==
    /\ pc = "result" /\ old.mode = "Input" /\ line = TextD /\ mode = "Input"
    /\ old.data # <<>> /\ data = Splice(old.data, old.current_line + 1, old.current_line, <<TextD>>)

\* an Input block begun by the command op has just been closed by "."
BlockDone(op) == pc = "result" /\ old.mode = "Input" /\ line = Dot /\ block.cmd.op = op

\* C6: Append at k, the lines t1..tn, then ".": the buffer is B[1..k] ++ t ++
\* B[k+1..], the cursor k + n, the mode Command, and dirty is set when n >= 1
C6_AppendBlock ==
    BlockDone("Append") =>
        LET B == block.old.data
            k == LineOf(block.old, block.cmd.start)
            t == block.typed IN
        /\ data = Splice(B, k + 1, k, t)
        /\ current_line = k + Len(t)
        /\ mode = "Command"
        /\ Len(t) >= 1 => dirty

C6_Witness ==
    /\ BlockDone("Append") /\ Len(block.typed) = 2 /\ block.typed[1] # block.typed[2]
    /\ Len(block.old.data) = 1 /\ LineOf(block.old, block.cmd.start) = 0
    /\ ~block.old.dirty /\ dirty

\* C7: Insert at k >= 1, the lines t1..tn, then ".": the buffer is
\* B[1..k-1] ++ t ++ B[k..]; on an empty buffer the lines typed are the buffer
C7_InsertBlock ==
    BlockDone("Insert") =>
        LET B == block.old.data
            k == LineOf(block.old, block.cmd.start)
            t == block.typed IN
        /\ k >= 1 => data = Splice(B, k, k - 1, t)
        /\ B = <<>> => data = t

C7_Witness ==
    /\ BlockDone("Insert") /\ Len(block.typed) = 1
    /\ Len(block.old.data) = 2 /\ LineOf(block.old, block.cmd.start) = 2
    /\ block.old.data[1] # block.old.data[2]

C9_Delete ==
    (Ran("Delete") /\ old.data # <<>> /\ ValidRange(old, line)) =>
        /\ res = OkRes("Continue")
        /\ data = Splice(old.data, RangeStart(old, line), RangeEnd(old, line), <<>>)
        /\ dirty
        /\ current_line = Min(RangeStart(old, line), Len(data))

\* the destination of a Move
MoveDest(o, c) == LineOf(o, c.dest)

\* C10: a Move on a non-empty buffer whose destination d lies in its source
\* range [s,e], s <= d <= e, returns an error and leaves the buffer, the
\* cursor and dirty as they were
C10_MoveSelf ==
    (Ran("Move") /\ old.data # <<>>
        /\ RangeStart(old, line) <= MoveDest(old, line)
        /\ MoveDest(old, line) <= RangeEnd(old, line)) =>
        /\ res.k = "Err"
        /\ data = old.data /\ current_line = old.current_line /\ dirty = old.dirty

C10_Witness ==
    /\ Ran("Move") /\ IsSome(line.start) /\ IsSome(line.end) /\ ValidRange(old, line)
    /\ RangeStart(old, line) < RangeEnd(old, line)
    /\ MoveDest(old, line) = RangeStart(old, line)
    /\ res = ErrRes("Invalid destination") /\ data = old.data

\* B with the lines s..e taken out and put back, in order, after the line
\* that was line d
Moved(B, s, e, d) ==
    IF d < s
    THEN SubSeq(B, 1, d) \o SubSeq(B, s, e) \o SubSeq(B, d + 1, s - 1)
            \o SubSeq(B, e + 1, Len(B))
    ELSE SubSeq(B, 1, s - 1) \o SubSeq(B, e + 1, d) \o SubSeq(B, s, e)
            \o SubSeq(B, d + 1, Len(B))

\* a Move of a range of the buffer to a destination outside it has succeeded
MoveDone ==
    /\ Ran("Move") /\ res.k = "Ok" /\ ValidRange(old, line)
    /\ (MoveDest(old, line) < RangeStart(old, line)
            \/ MoveDest(old, line) > RangeEnd(old, line))

\* C11: a Move of the range [s,e] to d outside it that succeeds leaves the
\* buffer with the lines s..e, in order, after the line that was line d; the
\* length is unchanged
C11_MoveResult ==
    MoveDone =>
        /\ data = Moved(old.data, RangeStart(old, line), RangeEnd(old, line),
                        MoveDest(old, line))
        /\ Len(data) = Len(old.data)

C11_Witness ==
    /\ MoveDone /\ Len(old.data) = 4
    /\ RangeStart(old, line) = 2 /\ RangeEnd(old, line) = 3
    /\ MoveDest(old, line) = 0
    /\ data = <<old.data[2], old.data[3], old.data[1], old.data[4]>>

\* the place in the buffer after a Move of the last line moved
LastMoved(s, e, d) == IF d < s THEN d + (e - s + 1) ELSE d

\* C12: after every successful Move the cursor is the place of the last line
\* moved in the resulting buffer, and dirty is set
C12_MoveCursor ==
    MoveDone =>
        /\ current_line = LastMoved(RangeStart(old, line), RangeEnd(old, line),
                                    MoveDest(old, line))
        /\ dirty

\* the pattern, the replacement and the flag of the well-formed arguments
SubstOf(arg) ==
    CASE arg = SubstDQ -> [re |-> <<"d">>, rep |-> <<"q">>, all |-> FALSE]
      [] arg = SubstDQG -> [re |-> <<"d">>, rep |-> <<"q">>, all |-> TRUE]
      [] arg = SubstQD -> [re |-> <<"q">>, rep |-> <<"d">>, all |-> FALSE]
      [] arg = SubstEmpty -> [re |-> <<>>, rep |-> <<"q">>, all |-> FALSE]

\* the text re occurs in text at the place i
Occurs(re, text, i) ==
    i >= 1 /\ i + Len(re) - 1 <= Len(text) /\ SubSeq(text, i, i + Len(re) - 1) = re

\* the reference replacement of the first occurrence of re in text
RefFirst(re, text, rep) ==
    IF \A i \in 1..(Len(text) + 1) : ~Occurs(re, text, i) THEN text
    ELSE LET p == CHOOSE i \in 1..(Len(text) + 1) :
                      Occurs(re, text, i) /\ \A j \in 1..(i - 1) : ~Occurs(re, text, j) IN
         SubSeq(text, 1, p - 1) \o rep \o SubSeq(text, p + Len(re), Len(text))

\* the reference replacement of every occurrence of a non-empty re in text,
\* leftmost first and not overlapping
RECURSIVE RefAll(_, _, _)
RefAll(re, text, rep) ==
    IF text = <<>> THEN <<>>
    ELSE IF Occurs(re, text, 1)
    THEN rep \o RefAll(re, SubSeq(text, Len(re) + 1, Len(text)), rep)
    ELSE <<Head(text)>> \o RefAll(re, Tail(text), rep)

RefReplace(arg, text) ==
    IF SubstOf(arg).all THEN RefAll(SubstOf(arg).re, text, SubstOf(arg).rep)
    ELSE RefFirst(SubstOf(arg).re, text, SubstOf(arg).rep)

\* a Substitute has succeeded
SubstDone == Ran("Substitute") /\ res.k = "Ok"

\* C13: after a successful Substitute every line of its range is the
\* reference replacement of the line it was: of the first match only without
\* the flag g, of every match with it
C13_SubstFirstAll ==
    (SubstDone /\ ValidRange(old, line)) =>
        \A i \in RangeStart(old, line)..RangeEnd(old, line) :
            data[i] = RefReplace(line.arg, old.data[i])

\* the arguments that are missing, lack a delimiter or have an empty pattern
SubstMalformed == {NoArg, <<"d">>, SubstNoSecond, SubstEmpty}

\* a well-formed Substitute on a range of the buffer none of whose lines has
\* a match
SubstNoMatch ==
    /\ Ran("Substitute") /\ line.arg \in {SubstDQ, SubstDQG, SubstQD}
    /\ ValidRange(old, line)
    /\ \A i \in RangeStart(old, line)..RangeEnd(old, line) :
            RefReplace(line.arg, old.data[i]) = old.data[i]

\* C14: a Substitute that changes no line of its range returns the error
\* "No match", and one whose argument is missing, lacks the leading or the
\* second "/" or has an empty pattern returns an error; both leave the
\* buffer, the cursor and dirty as they were
C14_SubstErrors ==
    /\ SubstNoMatch => res = ErrRes("No match")
    /\ (SubstNoMatch \/ (Ran("Substitute") /\ line.arg \in SubstMalformed)) =>
            /\ res.k = "Err"
            /\ data = old.data /\ current_line = old.current_line /\ dirty = old.dirty

\* the last line of the range that a Substitute modified, 0 when none
LastModified(o, c, d) ==
    LET M == {i \in RangeStart(o, c)..RangeEnd(o, c) : d[i] # o.data[i]} IN
    IF M = {} THEN 0 ELSE CHOOSE i \in M : \A j \in M : j <= i

\* C15: after a successful Substitute the cursor is the last line of the
\* range that was modified, dirty is set, a line of the range with no match
\* is as it was, and so is every line outside the range
C15_SubstFrame ==
    (SubstDone /\ ValidRange(old, line)) =>
        /\ Len(data) = Len(old.data)
        /\ current_line = LastModified(old, line, data)
        /\ dirty
        /\ \A i \in 1..Len(old.data) :
              (i \notin RangeStart(old, line)..RangeEnd(old, line)
                  \/ RefReplace(line.arg, old.data[i]) = old.data[i])
              => data[i] = old.data[i]

\* the numbers and the offsets that addresses are resolved with
Numbers == 0..(MaxLines + 1)
Deltas == -(MaxLines + 1)..(MaxLines + 1)

\* an Append with the address a has been dispatched; on success the cursor
\* is the line the address resolved to
Appended(a) == Ran("Append") /\ line.start = a

\* C16 as stated: Numbered(n) resolves to n when 1 <= n <= L, and fails when
\* n > L and when n = 0
C16_Numbered ==
    \A n \in Numbers :
        /\ IF 1 <= n /\ n <= Len(data)
           THEN get_actual_line(Ed, Numbered(n)) = [ok |-> TRUE, line |-> n]
           ELSE ~get_actual_line(Ed, Numbered(n)).ok
        /\ Appended(Numbered(n)) =>
              IF 1 <= n /\ n <= Len(old.data)
              THEN res = OkRes("Continue") /\ current_line = n
              ELSE res = ErrRes("Invalid address")

\* C16 amended: Numbered(n) resolves to n when 0 <= n <= L (0 included), and
\* fails with an invalid-address error when n > L
C16_NumberedAmended ==
    \A n \in Numbers :
        /\ IF n <= Len(data)
           THEN get_actual_line(Ed, Numbered(n)) = [ok |-> TRUE, line |-> n]
           ELSE ~get_actual_line(Ed, Numbered(n)).ok
        /\ Appended(Numbered(n)) =>
              IF n <= Len(old.data)
              THEN res = OkRes("Continue") /\ current_line = n
              ELSE res = ErrRes("Invalid address")

C16_Witness ==
    /\ Appended(Numbered(0)) /\ Len(old.data) = MaxLines - 1 /\ old.current_line > 0
    /\ res = OkRes("Continue") /\ current_line = 0 /\ mode = "Input"
    /\ ~get_actual_line(Ed, Numbered(MaxLines)).ok

\* C17: Offset(delta) with the cursor c resolves to c + delta when that is
\* in 1..L and fails with an invalid-address error otherwise, never clamped,
\* as the address of a command and as the target of a Jump
C17_Offset ==
    \A k \in Deltas :
        /\ IF 1 <= current_line + k /\ current_line + k <= Len(data)
           THEN get_actual_line(Ed, Offset(k)) = [ok |-> TRUE, line |-> current_line + k]
           ELSE ~get_actual_line(Ed, Offset(k)).ok
        /\ Appended(Offset(k)) =>
              IF 1 <= old.current_line + k /\ old.current_line + k <= Len(old.data)
              THEN res = OkRes("Continue") /\ current_line = old.current_line + k
              ELSE res = ErrRes("Invalid address") /\ current_line = old.current_line
        /\ (Ran("Jump") /\ line.start = Offset(k)) =>
              IF 1 <= old.current_line + k /\ old.current_line + k <= Len(old.data)
              THEN res = OkRes("Continue") /\ current_line = old.current_line + k
              ELSE res = ErrRes("Invalid address") /\ current_line = old.current_line

C17_Witness ==
    /\ Ran("Jump") /\ line.start = Offset(1)
    /\ old.current_line = Len(old.data) /\ Len(old.data) = MaxLines - 1
    /\ res = ErrRes("Invalid address") /\ current_line = old.current_line

\* the file a Write or a Read or an Edit names: its argument, or the path of
\* the editor
Target(o, c) == IF c.file # NoPath THEN c.file ELSE o.path

\* a Write of the whole buffer has succeeded
WroteAll ==
    /\ Ran("Write") /\ res.k = "Ok" /\ res.v # "Unknown"
    /\ ~IsSome(line.start) /\ ~IsSome(line.end)

\* the editor with an empty buffer
Emptied(ed) == [ed EXCEPT !.data = <<>>, !.current_line = 0]

\* C18: after a Write of the whole buffer B to a path P, loading P, by a Read
\* into an empty buffer or by an Edit of P, gives exactly the lines of B
C18_RoundTrip ==
    WroteAll =>
        /\ edit(Ed, Target(old, line)).ed.data = old.data
        /\ read(Emptied(Ed), None, Target(old, line)).ed.data = old.data

\* the editor state is as it was before the dispatch, but perhaps for dirty
SameButDirty ==
    /\ data = old.data /\ current_line = old.current_line /\ mode = old.mode
    /\ path = old.path /\ files = old.files

\* C19: a Quit that is forced, or given when dirty is false, returns Quit and
\* changes nothing; an unforced Quit when dirty is true returns the warning
\* "buffer modified" as an error and changes only dirty, to false, so that an
\* unforced Quit dispatched next returns Quit
C19_Quit ==
    Ran("Quit") =>
        IF line.force \/ ~old.dirty
        THEN res = OkRes("Quit") /\ SameButDirty /\ dirty = old.dirty
        ELSE /\ res = ErrRes("Warning: buffer modified")
             /\ SameButDirty /\ ~dirty
             /\ dispatch(Ed, Simple("Quit")) = Ok(Ed, "Quit")

C19_Witness ==
    /\ Ran("Quit") /\ ~line.force /\ old.dirty /\ old.data # <<>>
    /\ res = ErrRes("Warning: buffer modified") /\ ~dirty

\* a Write has succeeded
WriteDone == Ran("Write") /\ res = OkRes("Continue")

\* the lines a Write stores: the whole buffer when it has no address
Stored(o, c) ==
    IF ~IsSome(c.start) /\ ~IsSome(c.end) THEN o.data
    ELSE SubSeq(o.data, RangeStart(o, c), RangeEnd(o, c))

\* C20: a successful Write leaves in the target file exactly the lines of
\* its range, in order, makes the target the path of the editor, sets dirty
\* to false, and leaves the buffer and the mode as they were
C20_WriteFrame ==
    WriteDone =>
        /\ files[Target(old, line)] = LinesToBytes(Stored(old, line))
        /\ path = Target(old, line)
        /\ ~dirty
        /\ data = old.data /\ mode = old.mode

C20_Witness ==
    /\ WriteDone /\ line.file = "f" /\ old.path = NoPath /\ old.dirty
    /\ Len(old.data) = 3 /\ line.start = Numbered(2) /\ line.end = LastLine
    /\ files["f"] = LinesToBytes(SubSeq(old.data, 2, 3))

\* an Edit of a named or associated path was dispatched
EditOf(p) == Ran("Edit") /\ Target(old, line) = p /\ p # NoPath

\* C21: a successful Edit replaces the buffer by exactly the lines of the
\* file, dirty or not, sets the cursor to the new number of lines and the
\* path to that file; an Edit of a file that cannot be opened returns an
\* error and leaves buffer, cursor, path and dirty as they were
C21_Edit ==
    \A p \in Paths :
        EditOf(p) =>
            IF old.files[p] = NoFile
            THEN /\ res.k = "Err"
                 /\ data = old.data /\ current_line = old.current_line
                 /\ path = old.path /\ dirty = old.dirty
            ELSE /\ res = OkRes("Continue")
                 /\ data = SplitLines(old.files[p], <<>>, <<>>)
                 /\ current_line = Len(data)
                 /\ path = p

\* a dirty buffer of other lines is replaced by the two lines of the file
C21_Witness ==
    /\ EditOf("f") /\ line.file = "f" /\ old.path = NoPath /\ old.dirty
    /\ old.data = <<TextD>> /\ res = OkRes("Continue")
    /\ old.files["f"] # NoFile /\ old.files["f"] = CrLfFile
    /\ data = <<TextQ, TextD>> /\ current_line = 2 /\ path = "f"

\* a Read has succeeded
ReadDone == Ran("Read") /\ res = OkRes("Continue")

\* C22: a successful Read of a file with the lines f1..fn at the resolved
\* address a (the cursor by default, 0 <= a <= len(B)) yields the buffer
\* B[1..a] ++ [f1..fn] ++ B[a+1..], sets the cursor to a + n and dirty to true
C22_Read ==
    ReadDone =>
        LET a == LineOf(old, line.start)
            f == SplitLines(old.files[Target(old, line)], <<>>, <<>>)
        IN
        /\ 0 <= a /\ a <= Len(old.data)
        /\ data = SubSeq(old.data, 1, a) \o f \o SubSeq(old.data, a + 1, Len(old.data))
        /\ current_line = a + Len(f)
        /\ dirty

\* a one-line file is read after line 1 of a clean buffer of two lines
C22_Witness ==
    /\ ReadDone /\ line.start = Numbered(1) /\ ~old.dirty
    /\ old.data = <<TextQ, TextD>> /\ old.files[Target(old, line)] = <<"d", "\n">>
    /\ data = <<TextQ, TextD, TextD>> /\ current_line = 2 /\ dirty

\* a file is read at address 0 of a buffer that has lines
C22_WitnessFront ==
    /\ ReadDone /\ line.start = Numbered(0) /\ Len(old.data) = 1
    /\ Len(data) = 3 /\ data[3] = old.data[1] /\ current_line = 2

\* a Print or a Numbered-print was dispatched
Printing == Ran("Print") \/ Ran("Numbered")

\* the output of the lines s..e of the buffer B, numbered or not
Shown(B, s, e, nums) ==
    [i \in 1..(e - s + 1) |->
        [kind |-> IF nums THEN "numbered" ELSE "line",
         n |-> IF nums THEN s + i - 1 ELSE 0,
         text |-> B[s + i - 1]]]

\* C23: Print and Numbered-print never change the buffer's lines, the dirty
\* flag, the mode or the path; on success they output exactly the lines of
\* the resolved range in order (the cursor line when no address is given)
\* and set the cursor to the resolved end of the range, a line number in
\* 1..len(Buffer)
C23_PrintFrame ==
    Printing =>
        /\ data = old.data /\ dirty = old.dirty /\ mode = old.mode /\ path = old.path
        /\ res.k = "Ok" =>
            /\ out = Shown(old.data, RangeStart(old, line), RangeEnd(old, line),
                           line.op = "Numbered")
            /\ current_line = RangeEnd(old, line)
            /\ 1 <= current_line /\ current_line <= Len(data)

\* a line was tokenized and its tokens were parsed
Parsed == pc = "parsed" /\ out.k = "Ok"

\* the tokens have one of the kind k
HasKind(tokens, k) == \E i \in 1..Len(tokens) : tokens[i].kind = k

\* the letter of the Command token, "" when there is none
LetterOf(tokens) ==
    IF HasKind(tokens, "Command")
    THEN (CHOOSE t \in {tokens[i] : i \in 1..Len(tokens)} : t.kind = "Command").text[1]
    ELSE ""

\* the letters whose command is given the range by parse
RangeLetters == {"p", "n", "d", "w", "c"}

Addresses(tokens) == SelectSeq(tokens, LAMBDA t : t.kind = "Address")

\* the tokens have no Command, and every address text is a valid address
NoCommand ==
    /\ Parsed /\ ~HasKind(out.v, "Command")
    /\ \A i \in 1..Len(out.v) :
          out.v[i].kind = "Address" => parse_address(out.v[i].text).k = "Ok"

\* C25: for a token sequence with no Command token, parse returns Jump with
\* the address when exactly one address was captured (before a separator,
\* after a separator, or with no separator), and Noop when there is no
\* address
C25_JumpOrNoop ==
    NoCommand =>
        LET a == Addresses(out.v) IN
        /\ Len(a) = 1 => res = OkRes(Ranged("Jump", parse_address(a[1].text).v, None))
        /\ Len(a) = 0 => res = OkRes(Simple("Noop"))

\* the tokens are of an Insert or an Append, and every address is valid
InsertOrAppend ==
    /\ Parsed /\ LetterOf(out.v) \in {"i", "a"}
    /\ \A i \in 1..Len(out.v) :
          out.v[i].kind = "Address" => parse_address(out.v[i].text).k = "Ok"

\* C26: for the letters i and a, parse passes on the single captured address
\* as `before` / `after`; when a start and an end address were captured,
\* Insert and Append both carry the end address; with no address they carry
\* none
C26_OneAddress ==
    InsertOrAppend =>
        LET a == Addresses(out.v)
            op == IF LetterOf(out.v) = "i" THEN "Insert" ELSE "Append" IN
        /\ res.k = "Ok" /\ res.v.op = op
        /\ Len(a) = 1 => res.v.start = parse_address(a[1].text).v
        /\ Len(a) = 2 => res.v.start = parse_address(a[2].text).v
        /\ (Len(a) = 0 /\ ~HasKind(out.v, "Separator")) => res.v.start = None

\* the last dispatch returned to its caller
Returned == pc = "result" /\ res.k # "Panic"

\* C27: every operation that changes the buffer's line sequence sets the
\* dirty flag, and only a successful Write, a file load or the warning of an
\* unforced Quit clears it: when the lines were changed since the last
\* successful Write or load, and no warning was given since, dirty is true
C27_DirtyOnChange ==
    Returned =>
        /\ (data # old.data /\ ~(Ran("Edit") /\ res.k = "Ok")) => dirty
        /\ (old.dirty /\ ~dirty) =>
              \/ WriteDone
              \/ Ran("Edit") /\ res.k = "Ok"
              \/ Ran("Quit") /\ res = ErrRes("Warning: buffer modified")

\* a line was tokenized
Tokenized == pc = "tokenized"

\* the kinds of the tokens, in order
Kinds(tokens) == [i \in 1..Len(tokens) |-> tokens[i].kind]

\* the fixed order of the kinds, and its sub-sequences
TokenOrder == <<"Address", "Separator", "Address", "Command", "Suffix", "Argument">>

RECURSIVE Pick(_, _)
Pick(seq, keep) ==
    IF seq = <<>> THEN <<>>
    ELSE (IF Len(TokenOrder) - Len(seq) + 1 \in keep THEN <<Head(seq)>> ELSE <<>>)
            \o Pick(Tail(seq), keep)

InOrder(kinds) == \E keep \in SUBSET (1..Len(TokenOrder)) : kinds = Pick(TokenOrder, keep)

\* the texts of the tokens, one after the other
RECURSIVE Joined(_)
Joined(tokens) == IF tokens = <<>> THEN <<>> ELSE Head(tokens).text \o Joined(Tail(tokens))

\* the tokens of a kind
OfKind(tokens, k) == SelectSeq(tokens, LAMBDA t : t.kind = k)

\* the position of the first command letter of a line, Len + 1 with none
FirstLetter(l) ==
    IF \E i \in 1..Len(l) : l[i] \in COMMANDS
    THEN CHOOSE i \in 1..Len(l) : l[i] \in COMMANDS /\ \A j \in 1..(i - 1) : l[j] \notin COMMANDS
    ELSE Len(l) + 1

\* the text of l from position i up to the next space
UpToSpace(l, i) ==
    IF \E j \in i..Len(l) : l[j] = " "
    THEN SubSeq(l, i, (CHOOSE j \in i..Len(l) : l[j] = " " /\ \A h \in i..(j - 1) : l[h] # " ") - 1)
    ELSE SubSeq(l, i, Len(l))

\* C28: for every line, tokenize emits its tokens in the fixed order
\* [Address] [Separator] [Address] [Command] [Suffix] [Argument], at most two
\* Address tokens and one of each other kind, empty address sides omitted;
\* the text before the first command letter is the address portion; a space
\* right after the command letter makes the trimmed rest an Argument, any
\* other character starts a Suffix that runs to the next space; the empty
\* line yields no token
C28_Tokenize ==
    Tokenized =>
        /\ res.k = "Ok"
        /\ LET t == res.v
               k == FirstLetter(line)
               front == SelectSeq(t, LAMBDA x : x.kind \in {"Address", "Separator"})
           IN
           /\ InOrder(Kinds(t))
           /\ \A i \in 1..Len(t) : t[i].text # <<>>
           /\ Joined(front) = SubSeq(line, 1, k - 1)
           /\ OfKind(t, "Command") =
                 IF k <= Len(line) THEN <<Token("Command", <<line[k]>>)>> ELSE <<>>
           /\ k < Len(line) =>
                 IF line[k + 1] = " "
                 THEN /\ OfKind(t, "Suffix") = <<>>
                      /\ OfKind(t, "Argument") =
                            IF trim(SubSeq(line, k + 2, Len(line))) = <<>> THEN <<>>
                            ELSE <<Token("Argument", trim(SubSeq(line, k + 2, Len(line))))>>
                 ELSE OfKind(t, "Suffix") = <<Token("Suffix", UpToSpace(line, k + 1))>>
           /\ k >= Len(line) => OfKind(t, "Suffix") = <<>> /\ OfKind(t, "Argument") = <<>>
           /\ line = <<>> => t = <<>>

\* a command that works on lines was dispatched on an empty buffer
OnEmpty ==
    /\ pc = "result" /\ old.mode = "Command" /\ old.data = <<>>
    /\ line.op \in {"Print", "Numbered", "Delete", "Change", "Move"}

\* C29: on an empty buffer Print, Numbered-print, Delete, Change and Move
\* each return an error, never Continue, and leave the buffer, the cursor,
\* the dirty flag and the mode as they were
C29_EmptyBuffer ==
    OnEmpty =>
        /\ res.k = "Err"
        /\ data = old.data /\ current_line = old.current_line
        /\ dirty = old.dirty /\ mode = old.mode

\* a Write, an Edit or a Read was dispatched with no file argument while the
\* editor has no path
NoFilename ==
    /\ pc = "result" /\ old.mode = "Command"
    /\ line.op \in {"Write", "Edit", "Read"}
    /\ line.file = NoPath /\ old.path = NoPath

\* C30: Write, Edit and Read with no file argument and no associated path
\* each return an error, not a Continue or Unknown outcome, and leave the
\* buffer, the cursor, the dirty flag, the mode and the path as they were
C30_NoFilename ==
    NoFilename =>
        /\ res.k = "Err"
        /\ data = old.data /\ current_line = old.current_line
        /\ dirty = old.dirty /\ mode = old.mode /\ path = old.path

\* the Command variant of a command letter
VariantOf(c) ==
    CASE c = "p" -> "Print" [] c = "n" -> "Numbered" [] c = "d" -> "Delete"
      [] c = "w" -> "Write" [] c = "i" -> "Insert" [] c = "a" -> "Append"
      [] c = "c" -> "Change" [] c = "e" -> "Edit" [] c = "r" -> "Read"
      [] c = "m" -> "Move" [] c = "s" -> "Substitute" [] c = "q" -> "Quit"
      [] c = "Q" -> "Quit" [] c = "h" -> "Help"

\* the letters the claim names
NamedLetters == {"p", "n", "d", "w", "i", "a", "c", "e", "r", "m", "s", "q", "Q", "h"}

\* the tokens have a Command with one of the letters L, and parse returned
ParsedLetter(L) == Parsed /\ res.k = "Ok" /\ LetterOf(out.v) \in L

\* C31: every command letter the tokenizer recognises (p, n, d, w, i, a, c,
\* e, r, m, s, q, Q, h) is mapped by parse to its own Command variant and
\* never to Noop: r gives Read, m gives Move with the Suffix parsed as the
\* destination, s gives Substitute with its argument, Q gives a forced Quit
C31_LetterMapping ==
    ParsedLetter(NamedLetters) =>
        LET c == LetterOf(out.v)
            suffix == OfKind(out.v, "Suffix") IN
        /\ res.v.op = VariantOf(c)
        /\ c = "Q" => res.v.force
        /\ (c = "m" /\ suffix # <<>> /\ parse_address(suffix[1].text).k = "Ok") =>
              res.v.dest = parse_address(suffix[1].text).v
        /\ (c = "s" /\ suffix # <<>>) => res.v.arg = suffix[1].text

\* a Substitute with a start address and no end address was dispatched
SubstStartOnly == Ran("Substitute") /\ IsSome(line.start) /\ ~IsSome(line.end)

\* the same Substitute, had the cursor been on line c
SubstWithCursor(c) ==
    substitute([old EXCEPT !.current_line = c], line.start, line.end, line.arg)

\* C32: a Substitute given only a start address n changes no line other than
\* line n, whatever the cursor is: the lines between n and the cursor are not
\* touched, and the command does the same with the cursor below n as above n
C32_SubstStartOnly ==
    SubstStartOnly =>
        /\ res.k # "Panic"
        /\ Len(data) = Len(old.data)
        /\ \A i \in 1..Len(old.data) :
              i # LineOf(old, line.start) => data[i] = old.data[i]
        /\ \A c \in 1..Len(old.data) :
              /\ SubstWithCursor(c).res = res
              /\ SubstWithCursor(c).ed.data = data

\* a Write returned an error
WriteFailed == Ran("Write") /\ res.k = "Err"

\* C33: a Write that returns an error (an address of its range does not
\* resolve, or the buffer is empty) leaves the content of the target file as
\* it was before the command, and does not adopt the path or clear dirty
C33_FailedWrite ==
    WriteFailed =>
        /\ files[Target(old, line)] = old.files[Target(old, line)]
        /\ path = old.path
        /\ dirty = old.dirty
====
